---- MODULE Spec2Model ----
(***************************************************************************)
(* getTimeUsec (Sources/CLoftwing/src/time.c): the monotonic clock in      *)
(* microseconds, its build-time strategy selection, the lazily cached      *)
(* performance-counter frequency and the conversion arithmetic.            *)
(*                                                                         *)
(* 64-bit quantities do not fit the model checker's machine integers, so   *)
(* they are held exactly: a natural number is the sequence of its base-256 *)
(* digits, least significant first, without high zero digits (0 is <<>>),  *)
(* which is the little-endian byte layout of the targets; a signed value   *)
(* is a sign and a magnitude.  C's signed 64-bit operations are the exact  *)
(* operation followed by the two's-complement wrap, with the overflow      *)
(* recorded.                                                               *)
(***************************************************************************)
EXTENDS Integers, Sequences, FiniteSets, TLC

\* ------------------------------------------------------------------------
\* Exact natural numbers (base-256 digit sequences)
\* ------------------------------------------------------------------------
Base == 2^8

RECURSIVE Norm(_)
Norm(s) == IF s = <<>> THEN <<>>
           ELSE IF s[Len(s)] = 0 THEN Norm(SubSeq(s, 1, Len(s) - 1))
           ELSE s

RECURSIVE NFromInt(_)
NFromInt(n) == IF n = 0 THEN <<>> ELSE <<n % Base>> \o NFromInt(n \div Base)

RECURSIVE NToInt(_)
NToInt(s) == IF s = <<>> THEN 0 ELSE s[1] + Base * NToInt(Tail(s))

Digit(s, i) == IF i <= Len(s) THEN s[i] ELSE 0

MaxOf(a, b) == IF a >= b THEN a ELSE b

RECURSIVE AddFrom(_, _, _, _)
AddFrom(a, b, i, carry) ==
    IF i > MaxOf(Len(a), Len(b))
    THEN (IF carry = 0 THEN <<>> ELSE <<carry>>)
    ELSE LET t == Digit(a, i) + Digit(b, i) + carry
         IN  <<t % Base>> \o AddFrom(a, b, i + 1, t \div Base)

NAdd(a, b) == AddFrom(a, b, 1, 0)

RECURSIVE SubFrom(_, _, _, _)
SubFrom(a, b, i, borrow) ==
    IF i > Len(a) THEN <<>>
    ELSE LET t == Digit(a, i) - Digit(b, i) - borrow
         IN  IF t < 0 THEN <<t + Base>> \o SubFrom(a, b, i + 1, 1)
                      ELSE <<t>> \o SubFrom(a, b, i + 1, 0)

\* a - b for a >= b
NSub(a, b) == Norm(SubFrom(a, b, 1, 0))

RECURSIVE LessFrom(_, _, _)
LessFrom(a, b, i) == IF i = 0 THEN FALSE
                     ELSE IF a[i] # b[i] THEN a[i] < b[i]
                     ELSE LessFrom(a, b, i - 1)

NLess(a, b) == IF Len(a) # Len(b) THEN Len(a) < Len(b) ELSE LessFrom(a, b, Len(a))
NLeq(a, b) == ~NLess(b, a)

RECURSIVE MulFrom(_, _, _, _)
MulFrom(a, m, i, carry) ==
    IF i > Len(a) THEN NFromInt(carry)
    ELSE LET t == a[i] * m + carry
         IN  <<t % Base>> \o MulFrom(a, m, i + 1, t \div Base)

\* a * m for a machine-sized multiplier 0 <= m < 2^22
NMulSmall(a, m) == Norm(MulFrom(a, m, 1, 0))

\* The largest d with d * b <= r, counting down from the estimate d
RECURSIVE Correct(_, _, _)
Correct(r, b, d) == IF NLeq(NMulSmall(b, d), r) THEN d ELSE Correct(r, b, d - 1)

\* The quotient digit floor(r / b) of a remainder r < Base * b: estimated
\* from the two leading digits of b, which never underestimates it
QuotDigit(r, b) ==
    LET k   == IF Len(b) > 2 THEN Len(b) - 2 ELSE 0
        bt  == NToInt(SubSeq(b, k + 1, Len(b)))
        rt  == NToInt(SubSeq(r, k + 1, Len(r)))
        est == rt \div bt
    IN  Correct(r, b, IF est > Base - 1 THEN Base - 1 ELSE est)

\* One step of long division: p is <<quotient, remainder>> of the digits
\* above digit x of the dividend, the result that of the digits from x up
DivStep(p, x, b) ==
    LET r == Norm(<<x>> \o p[2])
        d == QuotDigit(r, b)
    IN  <<Norm(<<d>> \o p[1]), NSub(r, NMulSmall(b, d))>>

\* Long division, one base-256 digit at a time: <<quotient, remainder>> of
\* the digits i and above of a by b > 0.  (The set binds p to the value of
\* the recursive call before the step is taken.)
RECURSIVE DivFrom(_, _, _)
DivFrom(a, b, i) ==
    IF i > Len(a) THEN <<<<>>, <<>>>>
    ELSE CHOOSE s \in {DivStep(p, a[i], b) : p \in {DivFrom(a, b, i + 1)}} : TRUE

NDivMod(a, b) == DivFrom(a, b, 1)
NDiv(a, b) == NDivMod(a, b)[1]
NMod(a, b) == NDivMod(a, b)[2]

\* ------------------------------------------------------------------------
\* Signed values and the 64-bit integer types of the code
\* ------------------------------------------------------------------------
Z(neg, mag) == [neg |-> neg /\ mag # <<>>, mag |-> mag]
ZInt(n) == IF n < 0 THEN Z(TRUE, NFromInt(0 - n)) ELSE Z(FALSE, NFromInt(n))
ZNat(a) == Z(FALSE, a)
ZZero == ZNat(<<>>)

ZAdd(x, y) ==
    IF x.neg = y.neg THEN Z(x.neg, NAdd(x.mag, y.mag))
    ELSE IF NLeq(y.mag, x.mag) THEN Z(x.neg, NSub(x.mag, y.mag))
    ELSE Z(y.neg, NSub(y.mag, x.mag))

ZMulSmall(x, m) == Z(x.neg, NMulSmall(x.mag, m))

\* C99 6.5.5: the quotient truncates toward zero; the remainder has the
\* sign of the dividend.  The divisor is positive wherever the model divides.
ZDiv(x, d) == Z(x.neg, NDiv(x.mag, d.mag))
ZMod(x, d) == Z(x.neg, NMod(x.mag, d.mag))

ZLeq(x, y) ==
    IF x.neg /\ ~y.neg THEN TRUE
    ELSE IF ~x.neg /\ y.neg THEN FALSE
    ELSE IF x.neg THEN NLeq(y.mag, x.mag)
    ELSE NLeq(x.mag, y.mag)

Two63 == <<0, 0, 0, 0, 0, 0, 0, 128>>
Two64 == <<0, 0, 0, 0, 0, 0, 0, 0, 1>>
INT64_MAX == ZNat(NSub(Two63, <<1>>))
INT64_MIN == Z(TRUE, Two63)

InInt64(x) == ZLeq(INT64_MIN, x) /\ ZLeq(x, INT64_MAX)

\* The two's-complement result of a signed 64-bit operation whose exact
\* result is x
Wrap64(x) ==
    LET m == Norm(SubSeq(x.mag, 1, IF Len(x.mag) < 8 THEN Len(x.mag) ELSE 8))
        u == IF x.neg /\ m # <<>> THEN NSub(Two64, m) ELSE m
    IN  IF NLess(u, Two63) THEN ZNat(u) ELSE Z(TRUE, NSub(Two64, u))

\* ------------------------------------------------------------------------
\* Bounds of the model
\* ------------------------------------------------------------------------
\* the counter is read at the multiples 0..MaxTicks of 9999999 ticks
MaxTicks == 2
\* and at INT64_MAX - k for k in 0..MaxTopOffset
MaxTopOffset == 1
\* the monotonic clock's seconds run over 0..MaxSec (and one large value)
MaxSec == 1
\* concurrent first callers
NThreads == 2

\* ------------------------------------------------------------------------
\* Build-time strategy selection: the #if / #elif chain of getTimeUsec
\* ------------------------------------------------------------------------
RecognisedMacros ==
    {"_WIN32", "__PSL1GHT__", "__PS3__", "GEKKO", "WIIU", "SWITCH",
     "HAVE_LIBNX", "_3DS", "_POSIX_MONOTONIC_CLOCK", "__QNX__", "ANDROID",
     "__MACH__", "DJGPP", "EMSCRIPTEN", "PS2", "VITA", "PSP"}

\* a macro the chain never tests
OtherMacros == {"__linux__"}

AllMacros == RecognisedMacros \cup OtherMacros

\* The branches in chain order, each with the strategy it compiles in
Branches ==
    <<"WIN32", "PSL1GHT", "PS3", "GEKKO", "WIIU", "SWITCH", "3DS", "POSIX",
      "EMSCRIPTEN", "PS2", "VITA">>

\* The condition of branch i, as the preprocessor evaluates it on the set
\* of defined macros
BranchCond(i, defined) ==
    CASE i = 1  -> "_WIN32" \in defined
      [] i = 2  -> "__PSL1GHT__" \in defined
      [] i = 3  -> "__PSL1GHT__" \notin defined /\ "__PS3__" \in defined
      [] i = 4  -> "GEKKO" \in defined
      [] i = 5  -> "WIIU" \in defined
      [] i = 6  -> "SWITCH" \in defined \/ "HAVE_LIBNX" \in defined
      [] i = 7  -> "_3DS" \in defined
      [] i = 8  -> \/ "_POSIX_MONOTONIC_CLOCK" \in defined
                   \/ "__QNX__" \in defined
                   \/ "ANDROID" \in defined
                   \/ "__MACH__" \in defined
                   \/ "DJGPP" \in defined
      [] i = 9  -> "EMSCRIPTEN" \in defined
      [] i = 10 -> "PS2" \in defined
      [] i = 11 -> "VITA" \in defined \/ "PSP" \in defined

\* A chain with every #elif read as a fresh #if: each branch whose condition
\* holds is compiled in
IndependentIfs(defined, i) ==
    LET hit == {Branches[j] : j \in {k \in i..Len(Branches) : BranchCond(k, defined)}}
    IN  [done |-> TRUE, compiled |-> hit, error |-> hit = {}]

\* #if / #elif / #else from branch i on: the first branch whose condition
\* holds is compiled in and the rest of the chain is skipped; #else is #error
RECURSIVE Chain(_, _)
Chain(defined, i) ==
    IF i > Len(Branches) THEN [done |-> TRUE, compiled |-> {}, error |-> TRUE]
    ELSE IF BranchCond(i, defined)
         THEN [done |-> TRUE, compiled |-> {Branches[i]}, error |-> FALSE]
         ELSE Chain(defined, i + 1)

Preprocess(defined) == Chain(defined, 1)

Unbuilt == [done |-> FALSE, compiled |-> {}, error |-> FALSE]

\* ------------------------------------------------------------------------
\* The conversions to microseconds
\* ------------------------------------------------------------------------
Million == 1000000
HalfMicro == 500
NanosPerMicro == 1000

\* The remainder term alone: the whole-seconds term dropped
RemainderOnly(c, f) ==
    LET part == ZMulSmall(ZMod(c, f), Million)
    IN  [value    |-> Wrap64(ZDiv(Wrap64(part), f)),
         overflow |-> ~InInt64(part)]

\* The whole-seconds term alone: the remainder term dropped
WholeOnly(c, f) ==
    LET whole == ZMulSmall(ZDiv(c, f), Million)
    IN  [value |-> Wrap64(whole), overflow |-> ~InInt64(whole)]

\* count * 1000000 / freq in one step: the multiplication is not split
MultiplyThenDivide(c, f) ==
    LET prod == ZMulSmall(c, Million)
    IN  [value    |-> Wrap64(ZDiv(Wrap64(prod), f)),
         overflow |-> ~InInt64(prod)]

\* (count / freq * 1000000) + (count % freq * 1000000 / freq) on LONGLONG
\* operands c >= 0 and f1, f2, f3 > 0.  The expression names freq.QuadPart
\* three times and each is a load of the static of its own: f1, f2 and f3
\* are the values of the three loads in source order.  value is what
\* two's-complement hardware leaves; overflow says that the exact value of
\* a product or of the sum is outside the type (undefined behaviour in C).
PerfCounterToUsecLoads(c, f1, f2, f3) ==
    LET qr1   == NDivMod(c.mag, f1.mag)
        qr2   == IF f2 = f1 THEN qr1 ELSE NDivMod(c.mag, f2.mag)
        whole == ZMulSmall(Z(c.neg, qr1[1]), Million)
        part  == ZMulSmall(Z(c.neg, qr2[2]), Million)
        frac  == ZDiv(Wrap64(part), f3)
        sum   == ZAdd(Wrap64(whole), frac)
    IN  [value    |-> Wrap64(sum),
         overflow |-> ~InInt64(whole) \/ ~InInt64(part) \/ ~InInt64(sum)]

\* The same expression when nothing writes freq between its three loads
PerfCounterToUsec(c, f) == PerfCounterToUsecLoads(c, f, f, f)

\* Rounding the nanoseconds up to the next microsecond
TimespecRoundedUp(sec, nsec) ==
    LET whole == ZMulSmall(sec, Million)
        micro == ZDiv(ZAdd(nsec, ZInt(NanosPerMicro - 1)), ZInt(NanosPerMicro))
        sum   == ZAdd(Wrap64(whole), micro)
    IN  [value    |-> Wrap64(sum),
         overflow |-> ~InInt64(whole) \/ ~InInt64(sum)]

\* Truncation of the nanoseconds instead of rounding
TimespecTruncated(sec, nsec) ==
    LET whole == ZMulSmall(sec, Million)
        sum   == ZAdd(Wrap64(whole), ZDiv(nsec, ZInt(NanosPerMicro)))
    IN  [value    |-> Wrap64(sum),
         overflow |-> ~InInt64(whole) \/ ~InInt64(sum)]

\* tv.tv_sec * INT64_C(1000000) + (tv.tv_nsec + 500) / 1000
TimespecToUsec(sec, nsec) ==
    LET whole == ZMulSmall(sec, Million)
        micro == ZDiv(ZAdd(nsec, ZInt(HalfMicro)), ZInt(NanosPerMicro))
        sum   == ZAdd(Wrap64(whole), micro)
    IN  [value    |-> Wrap64(sum),
         overflow |-> ~InInt64(whole) \/ ~InInt64(sum)]

\* ------------------------------------------------------------------------
\* The static LARGE_INTEGER freq: a union of QuadPart and LowPart/HighPart
\* ------------------------------------------------------------------------
LowPartOf(n) == Norm(SubSeq(n, 1, IF Len(n) < 4 THEN Len(n) ELSE 4))
HighPartOf(n) == IF Len(n) > 4 THEN SubSeq(n, 5, Len(n)) ELSE <<>>
LargeInteger(n) == [LowPart |-> LowPartOf(n), HighPart |-> HighPartOf(n)]
QuadPart(li) ==
    Norm([i \in 1..4 |-> Digit(li.LowPart, i)] \o li.HighPart)

\* QueryPerformanceFrequency(&freq) with the given outcome: "ok" stores the
\* machine's frequency hw and reports success, "fail" stores nothing and
\* reports failure, "zero" reports success and stores 0
QueryPerformanceFrequency(li, outcome, hw) ==
    CASE outcome = "ok"   -> [ok |-> TRUE,  freq |-> LargeInteger(hw)]
      [] outcome = "zero" -> [ok |-> TRUE,  freq |-> LargeInteger(<<>>)]
      [] outcome = "fail" -> [ok |-> FALSE, freq |-> li]

\* ------------------------------------------------------------------------
\* One call of getTimeUsec, per compiled-in strategy
\* ------------------------------------------------------------------------
NoRaw == [count |-> ZZero, tv_sec |-> ZZero, tv_nsec |-> ZZero]

NoCall ==
    [strategy |-> "none", raw |-> NoRaw, unset |-> FALSE, queried |-> FALSE,
     qpfOK |-> FALSE, readOK |-> FALSE, conv |-> FALSE, ovf |-> FALSE,
     f |-> <<>>, ret |-> ZZero, died |-> FALSE, freq |-> LargeInteger(<<>>)]

\* The failure paths return the conversion of whatever was read
ConvertAnyway(li, qpf, hw, qpcOK, c) ==
    LET unset == QuadPart(li) = <<>>
        q     == IF unset THEN QueryPerformanceFrequency(li, qpf, hw)
                          ELSE [ok |-> TRUE, freq |-> li]
        f     == IF QuadPart(q.freq) = <<>> THEN hw ELSE QuadPart(q.freq)
        r     == PerfCounterToUsec(c, ZNat(f))
    IN  [NoCall EXCEPT !.strategy = "WIN32", !.raw.count = c, !.unset = unset,
                       !.queried = unset, !.qpfOK = unset /\ q.ok,
                       !.readOK = q.ok /\ qpcOK, !.conv = TRUE, !.f = f,
                       !.ret = r.value, !.freq = q.freq]

\* The cache is not consulted: every call queries the frequency
QueryEveryCall(li, qpf, hw, qpcOK, c) ==
    LET q == QueryPerformanceFrequency(li, qpf, hw)
        f == QuadPart(q.freq)
        r == PerfCounterToUsec(c, ZNat(f))
        base == [NoCall EXCEPT !.strategy = "WIN32", !.raw.count = c,
                               !.unset = QuadPart(li) = <<>>,
                               !.queried = TRUE, !.qpfOK = q.ok,
                               !.freq = q.freq]
    IN  IF ~q.ok THEN base
        ELSE IF ~qpcOK THEN base
        ELSE IF f = <<>>
             THEN [base EXCEPT !.readOK = TRUE, !.conv = TRUE, !.f = f,
                               !.died = TRUE]
        ELSE [base EXCEPT !.readOK = TRUE, !.conv = TRUE, !.f = f,
                          !.ovf = r.overflow, !.ret = r.value]

\* The performance-counter strategy (time.c lines 27-36).  li is the static
\* freq on entry, qpf the outcome of QueryPerformanceFrequency should it be
\* called, hw the machine's frequency, qpcOK and c the outcome of
\* QueryPerformanceCounter.  conv says that the conversion expression was
\* evaluated, with divisor f; a division by zero ends the process (died);
\* on signed overflow (ovf) ret is what a wrapping build returns.
getTimeUsecWin32(li, qpf, hw, qpcOK, c) ==
    LET unset == QuadPart(li) = <<>>
        q     == IF unset THEN QueryPerformanceFrequency(li, qpf, hw)
                          ELSE [ok |-> TRUE, freq |-> li]
        f     == QuadPart(q.freq)
        r     == PerfCounterToUsec(c, ZNat(f))
        base  == [NoCall EXCEPT !.strategy = "WIN32", !.raw.count = c,
                                !.unset = unset, !.queried = unset,
                                !.qpfOK = unset /\ q.ok, !.freq = q.freq]
    IN  IF unset /\ ~q.ok THEN base
        ELSE IF ~qpcOK THEN base
        ELSE IF f = <<>>
             THEN [base EXCEPT !.readOK = TRUE, !.conv = TRUE, !.f = f,
                               !.died = TRUE]
        ELSE [base EXCEPT !.readOK = TRUE, !.conv = TRUE, !.f = f,
                          !.ovf = r.overflow, !.ret = r.value]

\* The seconds/nanoseconds strategy (time.c lines 50-53): status is what
\* ra_clock_gettime returns, (sec, nsec) what it stores on success
getTimeUsecPosix(status, sec, nsec) ==
    LET r    == TimespecToUsec(sec, nsec)
        base == [NoCall EXCEPT !.strategy = "POSIX", !.raw.tv_sec = sec,
                               !.raw.tv_nsec = nsec]
    IN  IF status < 0 THEN base
        ELSE [base EXCEPT !.readOK = TRUE, !.conv = TRUE, !.ovf = r.overflow, !.ret = r.value]

\* ------------------------------------------------------------------------
\* State
\* ------------------------------------------------------------------------
VARIABLES
    macros,    \* the platform macros defined for the build
    build,     \* what the #if chain compiled in (Unbuilt before the build)
    hwFreq,    \* the machine's performance-counter frequency, fixed at boot
    freq,      \* static LARGE_INTEGER freq, zero-initialised
    clock,     \* the timer source's raw counter at the latest call
    prev,      \* the call before the latest one on this thread
    last,      \* the latest call: what it read, did and returned
    crashed,   \* the process was ended by a trap
    cin,       \* operands given to the conversion alone
    cout,      \* its result
    pc,        \* concurrent callers: where each one is in getTimeUsec
    loc        \* concurrent callers: each one's registers and locals

vars == <<macros, build, hwFreq, freq, clock, prev, last, crashed, cin, cout,
          pc, loc>>

Threads == 1..NThreads

\* ------------------------------------------------------------------------
\* Inputs
\* ------------------------------------------------------------------------
\* floor(INT64_MAX / 1000000) = 9223372036854
MaxWhole == NDiv(INT64_MAX.mag, NFromInt(Million))

\* QueryPerformanceCounter readings
Counts ==
    {NFromInt(k * 9999999) : k \in 0..MaxTicks}
        \cup {NFromInt(9)}
        \cup {NSub(INT64_MAX.mag, NFromInt(k)) : k \in 0..MaxTopOffset}

\* Frequencies of the machine: 10 MHz, a 4.5 GHz invariant TSC, 1 kHz
HwFreqs ==
    {NFromInt(10000000), NMulSmall(NFromInt(1000000), 4500), NFromInt(1000)}

\* Monotonic clock readings
Secs == {NFromInt(k) : k \in 0..MaxSec} \cup {MaxWhole}
Nsecs == {NFromInt(0), NFromInt(499), NFromInt(500), NFromInt(999500),
          NFromInt(999999999)}

\* Builds with one of the two strategies that can fail at run time
BuildConfigs ==
    {{"_WIN32"}, {"_POSIX_MONOTONIC_CLOCK", "__linux__"}, {"__MACH__"}}

\* The raw counter of reading a is not after that of reading b
RawLeq(a, b) ==
    /\ ZLeq(a.count, b.count)
    /\ \/ a.tv_sec # b.tv_sec /\ ZLeq(a.tv_sec, b.tv_sec)
       \/ a.tv_sec = b.tv_sec /\ ZLeq(a.tv_nsec, b.tv_nsec)

NoConv == [done |-> FALSE, value |-> ZZero, overflow |-> FALSE]
NoInput == [count |-> ZZero, freq |-> ZZero]
Idle == [t \in Threads |-> "idle"]
\* A caller's locals: the halves of freq it has loaded (lo, hi), which half
\* its current two-word access handled first, the values of freq.QuadPart
\* its return expression has loaded so far (loads), and what the call did
ThreadStart ==
    [lo |-> <<>>, hi |-> <<>>, half |-> "none", count |-> ZZero,
     queried |-> FALSE, qpfOK |-> FALSE, readOK |-> FALSE, conv |-> FALSE,
     loads |-> <<>>, ret |-> ZZero, died |-> FALSE]
NoLocals == [t \in Threads |-> ThreadStart]

\* ------------------------------------------------------------------------
\* Sequential calls on one thread of a built program
\* ------------------------------------------------------------------------
Init ==
    /\ macros \in BuildConfigs
    /\ build = Preprocess(macros)
    /\ hwFreq \in (IF "WIN32" \in Preprocess(macros).compiled
                   THEN HwFreqs ELSE {<<>>})
    /\ freq = LargeInteger(<<>>)
    /\ clock = NoRaw
    /\ prev = NoCall
    /\ last = NoCall
    /\ crashed = FALSE
    /\ cin = NoInput
    /\ cout = NoConv
    /\ pc = Idle
    /\ loc = NoLocals

\* The call's effect on the process.  Signed overflow is undefined: the
\* build either wraps (the call returns r.ret) or traps (the process ends).
Returned(r) ==
    /\ freq' = r.freq
    /\ clock' = r.raw
    /\ prev' = last
    /\ \E trap \in (IF r.ovf THEN BOOLEAN ELSE {FALSE}) :
          /\ last' = [r EXCEPT !.died = r.died \/ trap,
                               !.ret = IF trap THEN ZZero ELSE r.ret]
          /\ crashed' = (r.died \/ trap)
    /\ UNCHANGED <<macros, build, hwFreq, cin, cout, pc, loc>>

CallWin32(qpf, qpcOK, c) ==
    /\ "WIN32" \in build.compiled
    /\ ~crashed
    /\ NLeq(clock.count.mag, c)
    /\ \E r \in {getTimeUsecWin32(freq, qpf, hwFreq, qpcOK, ZNat(c))} :
          Returned(r)

CallPosix(status, sec, nsec) ==
    /\ "POSIX" \in build.compiled
    /\ ~crashed
    /\ RawLeq(clock, [NoRaw EXCEPT !.tv_sec = ZNat(sec), !.tv_nsec = ZNat(nsec)])
    /\ \E r \in {getTimeUsecPosix(status, ZNat(sec), ZNat(nsec))} :
          Returned([r EXCEPT !.freq = freq])

Next ==
    \/ \E qpf \in {"ok", "fail"}, qpcOK \in BOOLEAN, c \in Counts :
          CallWin32(qpf, qpcOK, c)
    \/ \E status \in {0, -1}, sec \in Secs, nsec \in Nsecs :
          CallPosix(status, sec, nsec)

Spec == Init /\ [][Next]_vars

\* The same program against a QueryPerformanceFrequency that may report
\* success and leave the frequency 0
NextZeroFreq ==
    \/ \E qpf \in {"ok", "fail", "zero"}, qpcOK \in BOOLEAN, c \in Counts :
          CallWin32(qpf, qpcOK, c)
    \/ \E status \in {0, -1}, sec \in Secs, nsec \in Nsecs :
          CallPosix(status, sec, nsec)

SpecZeroFreq == Init /\ [][NextZeroFreq]_vars

\* ------------------------------------------------------------------------
\* The build alone, over every set of defined macros
\* ------------------------------------------------------------------------
InitBuild ==
    /\ macros \in SUBSET AllMacros
    /\ build = Unbuilt
    /\ hwFreq = <<>>
    /\ freq = LargeInteger(<<>>)
    /\ clock = NoRaw
    /\ prev = NoCall
    /\ last = NoCall
    /\ crashed = FALSE
    /\ cin = NoInput
    /\ cout = NoConv
    /\ pc = Idle
    /\ loc = NoLocals

Compile ==
    /\ ~build.done
    /\ build' = Preprocess(macros)
    /\ UNCHANGED <<macros, hwFreq, freq, clock, prev, last, crashed, cin, cout,
                   pc, loc>>

NextBuild == Compile

SpecBuild == InitBuild /\ [][NextBuild]_vars

\* ------------------------------------------------------------------------
\* The performance-counter conversion alone, on operands up to INT64_MAX
\* ------------------------------------------------------------------------
\* The largest frequency whose remainders times 1000000 all fit:
\* (FreqLimit - 1) * 1000000 <= INT64_MAX < FreqLimit * 1000000
FreqLimit == NAdd(MaxWhole, <<1>>)

ConvCounts == Counts \cup {MaxWhole, FreqLimit}

ConvFreqs ==
    HwFreqs \cup {NFromInt(1), NFromInt(3), NFromInt(Million - 1),
                  NFromInt(Million), FreqLimit, NAdd(FreqLimit, <<1>>),
                  INT64_MAX.mag}

InitConv ==
    /\ macros = {"_WIN32"}
    /\ build = Preprocess({"_WIN32"})
    /\ hwFreq = <<>>
    /\ freq = LargeInteger(<<>>)
    /\ clock = NoRaw
    /\ prev = NoCall
    /\ last = NoCall
    /\ crashed = FALSE
    /\ cin \in {[count |-> ZNat(c), freq |-> ZNat(f)] :
                    c \in ConvCounts, f \in ConvFreqs}
    /\ cout = NoConv
    /\ pc = Idle
    /\ loc = NoLocals

Convert ==
    /\ ~cout.done
    /\ \E r \in {PerfCounterToUsec(cin.count, cin.freq)} :
          cout' = [done |-> TRUE, value |-> r.value, overflow |-> r.overflow]
    /\ UNCHANGED <<macros, build, hwFreq, freq, clock, prev, last, crashed,
                   cin, pc, loc>>

NextConv == Convert

SpecConv == InitConv /\ [][NextConv]_vars

\* ------------------------------------------------------------------------
\* Concurrent first use on a 32-bit target: NThreads callers enter
\* getTimeUsec while the static freq is still zero.  freq is a plain static
\* with no synchronisation; a 64-bit access to it is two 32-bit accesses,
\* in either order, and the callers' accesses interleave.
\* ------------------------------------------------------------------------
Halves == {"LowPart", "HighPart"}
OtherHalf(h) == IF h = "LowPart" THEN "HighPart" ELSE "LowPart"

\* Thread-local copy after loading half h of the static
Loaded(l, h, li) ==
    IF h = "LowPart" THEN [l EXCEPT !.lo = li.LowPart]
                     ELSE [l EXCEPT !.hi = li.HighPart]

\* The static after storing half h of the value n
Stored(li, h, n) ==
    IF h = "LowPart" THEN [li EXCEPT !.LowPart = LowPartOf(n)]
                     ELSE [li EXCEPT !.HighPart = HighPartOf(n)]

LoadedQuad(l) == QuadPart([LowPart |-> l.lo, HighPart |-> l.hi])

ConcFreqs == {NFromInt(10000000), NMulSmall(NFromInt(1000000), 4500)}
ConcCounts == {NFromInt(9999999), NMulSmall(NFromInt(1000000), 5000)}

\* freq.QuadPart occurs three times in the return expression
FreqLoads == 3

InitConc ==
    /\ macros = {"_WIN32"}
    /\ build = Preprocess({"_WIN32"})
    /\ hwFreq \in ConcFreqs
    /\ freq = LargeInteger(<<>>)
    /\ clock = NoRaw
    /\ prev = NoCall
    /\ last = NoCall
    /\ crashed = FALSE
    /\ cin = NoInput
    /\ cout = NoConv
    /\ pc = [t \in Threads |-> "enter"]
    /\ loc = NoLocals

ConcUnchanged == UNCHANGED <<macros, build, hwFreq, clock, prev, last, cin, cout>>

\* !freq.QuadPart: the first word of the static is loaded
CheckLoadFirst(t, h) ==
    /\ pc[t] = "enter" /\ ~crashed
    /\ loc' = [loc EXCEPT ![t] = [Loaded(@, h, freq) EXCEPT !.half = h]]
    /\ pc' = [pc EXCEPT ![t] = "check"]
    /\ UNCHANGED <<freq, crashed>> /\ ConcUnchanged

\* ... the second word is loaded and the test decides whether to query
CheckLoadSecond(t) ==
    /\ pc[t] = "check" /\ ~crashed
    /\ \E l \in {Loaded(loc[t], OtherHalf(loc[t].half), freq)} :
          /\ loc' = [loc EXCEPT ![t] = l]
          /\ pc' = [pc EXCEPT ![t] =
                        IF LoadedQuad(l) = <<>> THEN "query" ELSE "counter"]
    /\ UNCHANGED <<freq, crashed>> /\ ConcUnchanged

\* QueryPerformanceFrequency(&freq): it fails and the call returns 0, or it
\* stores the first word of the frequency
Query(t, outcome, h) ==
    /\ pc[t] = "query" /\ ~crashed
    /\ IF outcome = "fail"
       THEN /\ loc' = [loc EXCEPT ![t].queried = TRUE]
            /\ pc' = [pc EXCEPT ![t] = "done"]
            /\ freq' = freq
       ELSE /\ loc' = [loc EXCEPT ![t].queried = TRUE, ![t].half = h]
            /\ pc' = [pc EXCEPT ![t] = "store"]
            /\ freq' = Stored(freq, h, hwFreq)
    /\ UNCHANGED crashed /\ ConcUnchanged

\* ... it stores the second word and reports success
Store(t) ==
    /\ pc[t] = "store" /\ ~crashed
    /\ freq' = Stored(freq, OtherHalf(loc[t].half), hwFreq)
    /\ loc' = [loc EXCEPT ![t].qpfOK = TRUE]
    /\ pc' = [pc EXCEPT ![t] = "counter"]
    /\ UNCHANGED crashed /\ ConcUnchanged

\* QueryPerformanceCounter(&count)
Counter(t, ok, c) ==
    /\ pc[t] = "counter" /\ ~crashed
    /\ IF ok
       THEN /\ loc' = [loc EXCEPT ![t].readOK = TRUE, ![t].count = ZNat(c)]
            /\ pc' = [pc EXCEPT ![t] = "convert"]
       ELSE /\ loc' = loc
            /\ pc' = [pc EXCEPT ![t] = "done"]
    /\ UNCHANGED <<freq, crashed>> /\ ConcUnchanged

\* The return expression loads freq.QuadPart FreqLoads times, one after the
\* other; a load starts with the first word
ConvLoadFirst(t, h) ==
    /\ pc[t] = "convert" /\ ~crashed
    /\ loc' = [loc EXCEPT ![t] = [Loaded(@, h, freq) EXCEPT !.half = h]]
    /\ pc' = [pc EXCEPT ![t] = "divide"]
    /\ UNCHANGED <<freq, crashed>> /\ ConcUnchanged

\* ... and ends with the second word; the operation on the loaded value
\* (/, %, /) kills the process when it is zero.  After the last load the
\* arithmetic is finished on the values loaded and the call returns.
ConvLoadSecond(t) ==
    /\ pc[t] = "divide" /\ ~crashed
    /\ \E l \in {Loaded(loc[t], OtherHalf(loc[t].half), freq)} :
          \E fs \in {Append(l.loads, LoadedQuad(l))} :
             IF fs[Len(fs)] = <<>>
             THEN /\ loc' = [loc EXCEPT ![t] =
                               [l EXCEPT !.conv = TRUE, !.loads = fs,
                                         !.died = TRUE]]
                  /\ crashed' = TRUE
                  /\ pc' = [pc EXCEPT ![t] = "done"]
             ELSE IF Len(fs) < FreqLoads
             THEN /\ loc' = [loc EXCEPT ![t] = [l EXCEPT !.loads = fs]]
                  /\ crashed' = crashed
                  /\ pc' = [pc EXCEPT ![t] = "convert"]
             ELSE /\ loc' = [loc EXCEPT ![t] =
                               [l EXCEPT !.conv = TRUE, !.loads = fs,
                                         !.ret = PerfCounterToUsecLoads(
                                                    l.count, ZNat(fs[1]),
                                                    ZNat(fs[2]), ZNat(fs[3])).value]]
                  /\ crashed' = crashed
                  /\ pc' = [pc EXCEPT ![t] = "done"]
    /\ UNCHANGED freq /\ ConcUnchanged

NextConc ==
    \E t \in Threads :
        \/ \E h \in Halves : CheckLoadFirst(t, h)
        \/ CheckLoadSecond(t)
        \/ \E outcome \in {"ok", "fail"}, h \in Halves : Query(t, outcome, h)
        \/ Store(t)
        \/ \E ok \in BOOLEAN, c \in ConcCounts : Counter(t, ok, c)
        \/ \E h \in Halves : ConvLoadFirst(t, h)
        \/ ConvLoadSecond(t)

SpecConc == InitConc /\ [][NextConc]_vars

\* ------------------------------------------------------------------------
\* Properties
\* ------------------------------------------------------------------------
\* The call evaluated its conversion and returned
Succeeded(r) == r.conv /\ ~r.died

\* floor(count * 1000000 / freq) in unbounded arithmetic
ExactUsec(c, f) == ZDiv(ZMulSmall(c, Million), f)

\* A query to the timer source failed during the call
QueryFailed(r) ==
    /\ r.strategy # "none"
    /\ (r.queried /\ ~r.qpfOK) \/ ~r.readOK

\* C1 as claimed: for two successive calls A (prev) then B (last) on one
\* thread, whatever happened in them, if B's raw counter is not before A's
\* then B's return value is not below A's.
C1_Monotonic ==
    (prev.strategy # "none" /\ ~crashed /\ RawLeq(prev.raw, last.raw))
        => ZLeq(prev.ret, last.ret)

\* C1 amended: on the performance-counter and the seconds/nanoseconds
\* strategies, for two successive calls whose timer queries all succeed and
\* whose conversions do not overflow, if B's raw counter is not before A's
\* then B's return value is not below A's.
C1_MonotonicWhenSucceeding ==
    (/\ Succeeded(prev) /\ ~prev.ovf
     /\ Succeeded(last) /\ ~last.ovf
     /\ RawLeq(prev.raw, last.raw))
        => ZLeq(prev.ret, last.ret)

\* Two successful calls, the second reading the largest counter value
C1_Witness ==
    /\ Succeeded(prev) /\ ~prev.ovf
    /\ Succeeded(last) /\ ~last.ovf
    /\ last.raw.count = INT64_MAX
    /\ prev.raw # last.raw
    /\ prev.ret # last.ret

\* C2: a call during which a query to the timer source fails returns
\* exactly 0 and evaluates no conversion arithmetic.
C2_FailureReturnsZero ==
    QueryFailed(last) => last.ret = ZZero /\ ~last.conv /\ ~last.died

\* A failing call right after one that returned a non-zero time
C2_Witness ==
    /\ QueryFailed(last)
    /\ Succeeded(prev)
    /\ prev.ret # ZZero

\* C3: for every set of defined macros the chain compiles in exactly one
\* strategy, the one of the first branch whose condition holds, and the
\* build fails with #error exactly when no recognised macro is defined.
C3_ExactlyOneStrategy ==
    build.done =>
        /\ build.error <=> (macros \cap RecognisedMacros = {})
        /\ build.error => build.compiled = {}
        /\ ~build.error => Cardinality(build.compiled) = 1
        /\ \A i \in 1..Len(Branches) :
              (/\ BranchCond(i, macros)
               /\ \A j \in 1..(i - 1) : ~BranchCond(j, macros))
                  => build.compiled = {Branches[i]}

\* A build with macros of two different branches defined
C3_Witness ==
    /\ build.done
    /\ {"_WIN32", "_POSIX_MONOTONIC_CLOCK", "PSP"} \subseteq macros
    /\ build.compiled = {"WIN32"}

\* C4 as claimed: the conversion overflows for no count >= 0 and freq > 0
\* representable in 64 bits.
C4_NeverOverflows == cout.done => ~cout.overflow

\* C4 amended: no product and no sum of the conversion overflows for
\* count >= 0 and 0 < freq <= 9223372036855 whenever the exact result
\* floor(count * 1000000 / freq) is representable in signed 64 bits (which
\* it is for every count when freq >= 1000000).
C4_NoOverflowWhenRepresentable ==
    (/\ cout.done
     /\ NLeq(cin.freq.mag, FreqLimit)
     /\ InInt64(ExactUsec(cin.count, cin.freq)))
        => ~cout.overflow

\* The largest count at 1 MHz: the sum is exactly INT64_MAX
C4_Witness ==
    /\ cout.done
    /\ cin.count = INT64_MAX
    /\ cin.freq = ZInt(Million)
    /\ cout.value = INT64_MAX
    /\ ~cout.overflow

\* C5 as claimed: a clock read of (1 s, 999500 ns) returns 1000999 and one
\* of (0 s, 499 ns) returns 0.
C5_RoundingAsStated ==
    (last.strategy = "POSIX" /\ last.readOK) =>
        /\ (last.raw.tv_sec = ZInt(1) /\ last.raw.tv_nsec = ZInt(999500))
              => last.ret = ZInt(1000999)
        /\ (last.raw.tv_sec = ZZero /\ last.raw.tv_nsec = ZInt(499))
              => last.ret = ZZero

\* C5 amended: a clock read of (1 s, 999500 ns) returns 1001000 (the 999.5
\* microseconds round up to 1000) and one of (0 s, 499 ns) returns 0.
C5_Rounding ==
    (last.strategy = "POSIX" /\ last.readOK) =>
        /\ (last.raw.tv_sec = ZInt(1) /\ last.raw.tv_nsec = ZInt(999500))
              => last.ret = ZInt(1001000)
        /\ (last.raw.tv_sec = ZZero /\ last.raw.tv_nsec = ZInt(499))
              => last.ret = ZZero

\* A successful read of (1 s, 999500 ns) after one of (0 s, 499 ns)
C5_Witness ==
    /\ last.strategy = "POSIX" /\ last.readOK
    /\ last.raw.tv_sec = ZInt(1) /\ last.raw.tv_nsec = ZInt(999500)
    /\ prev.strategy = "POSIX" /\ prev.readOK
    /\ prev.raw.tv_sec = ZZero /\ prev.raw.tv_nsec = ZInt(499)

\* C6 as claimed: with NThreads concurrent first callers no caller
\* crashes, every load of the frequency by a conversion yields the
\* machine's one true frequency and the value returned is the conversion
\* by it, and once all have returned after a successful query the cache
\* holds it.
C6_ConcurrentFirstUse ==
    /\ ~crashed
    /\ \A t \in Threads :
          /\ \A i \in 1..Len(loc[t].loads) : loc[t].loads[i] = hwFreq
          /\ loc[t].conv
                => loc[t].ret = PerfCounterToUsec(loc[t].count, ZNat(hwFreq)).value
    /\ ((\A t \in Threads : pc[t] = "done") /\ (\E t \in Threads : loc[t].qpfOK))
          => QuadPart(freq) = hwFreq

\* C7: (1) a call that finds the cache unset queries the frequency; (2) a
\* failed query leaves the cache unset and the next call queries again;
\* (3) once a query has succeeded the cache holds a frequency, is never
\* queried again and never changes, also across failing counter reads.
C7_FrequencyCacheLifecycle ==
    /\ []((last.strategy = "WIN32" /\ last.unset) => last.queried)
    /\ []((last.queried /\ ~last.qpfOK) => QuadPart(freq) = <<>>)
    /\ [][(last.queried /\ ~last.qpfOK) => last'.queried]_vars
    /\ [](last.qpfOK => QuadPart(freq) = hwFreq /\ hwFreq # <<>>)
    /\ [][QuadPart(freq) # <<>> => (freq' = freq /\ ~last'.queried)]_vars

\* A failing counter read, with no query, right after the call whose query
\* succeeded
C7_Witness ==
    /\ prev.queried /\ prev.qpfOK
    /\ last.strategy = "WIN32" /\ ~last.readOK /\ ~last.queried
    /\ QuadPart(freq) = hwFreq

\* C8: whenever nothing overflows, the split conversion equals
\* floor(count * 1000000 / freq) computed in unbounded arithmetic.
C8_SplitIsExact ==
    (cout.done /\ ~cout.overflow)
        => cout.value = ExactUsec(cin.count, cin.freq)

\* A conversion with a non-zero whole part and a non-zero remainder
C8_Witness ==
    /\ cout.done /\ ~cout.overflow
    /\ NDiv(cin.count.mag, cin.freq.mag) # <<>>
    /\ NMod(cin.count.mag, cin.freq.mag) # <<>>
    /\ cin.freq.mag # <<1>>

\* C9: a call in which every query succeeds returns 0 when
\* count * 1000000 < freq (performance counter) or when sec = 0 and
\* nsec < 500 (seconds/nanoseconds): the value a failed query returns.
C9_GenuineZero ==
    /\ (/\ last.strategy = "WIN32" /\ Succeeded(last)
        /\ NLess(NMulSmall(last.raw.count.mag, Million), last.f))
          => last.ret = ZZero
    /\ (/\ last.strategy = "POSIX" /\ Succeeded(last)
        /\ last.raw.tv_sec = ZZero
        /\ NLess(last.raw.tv_nsec.mag, NFromInt(HalfMicro)))
          => last.ret = ZZero

\* A failed call and then a successful one with the counter at 9 ticks,
\* both returning 0
C9_Witness ==
    /\ QueryFailed(prev) /\ prev.ret = ZZero
    /\ Succeeded(last) /\ ~QueryFailed(last)
    /\ last.raw.count = ZInt(9)
    /\ last.ret = ZZero

\* C10 as claimed: whenever the conversion is evaluated its divisor, the
\* cached frequency, is non-zero, also when the frequency query reports
\* success and leaves the frequency 0.
C10_NoDivisionByZero == last.conv => last.f # <<>>

====
